---- MODULE Spec2Model ----
(***************************************************************************)
(* Model of the klv crate's decoders over one std::io::Cursor.             *)
(*                                                                         *)
(* Integers wider than TLC's own are kept as the machine keeps them: a     *)
(* u128 is its 16 big-endian bytes, an i32 its 4 two's-complement bytes.   *)
(* A bit vector (bitvec's BitVec<u8, Msb0>) is a sequence of 0/1, first    *)
(* element the most significant bit.                                       *)
(***************************************************************************)
EXTENDS Integers, Sequences, FiniteSets, TLC

VARIABLES src, pos, debug_assertions, op, arg, pos0, res,
          key, klvs, fetched, prev, recorded, pc, frame, borrowed, lengths, last_parsed

vars == <<src, pos, debug_assertions, op, arg, pos0, res,
          key, klvs, fetched, prev, recorded, pc, frame, borrowed,
          lengths, last_parsed>>

(***************************************************************************)
(* Bounds of the model.                                                    *)
(***************************************************************************)
\* longest run of one repeated byte in a generated source
MaxFill == 18
\* largest `length` argument passed to the fixed-width readers
MaxLength == 17

(***************************************************************************)
(* Program constants.                                                      *)
(***************************************************************************)
\* bits of a u128 / i128
U128_BITS == 128

(***************************************************************************)
(* Generated byte sources: head bytes, then a run of one byte, then a tail *)
(* part.  VarintSources reach the 128-bit boundary of both varint codecs   *)
(* ([0x90] FF^16, [0x91 0x01] 00^16, [0x83] FF^17 [0x7F], [0x84] 80^17     *)
(* [0x00]); Sources hold every fixed-width pattern of the integer tests.   *)
(***************************************************************************)
Rep(b, n) == [i \in 1..n |-> b]

VarintHeads ==
    {<< >>} \cup {<<h>> : h \in {0, 1, 127, 128, 129, 131, 132, 144, 145, 255}}
            \cup {<<h, s>> : h \in {129, 145}, s \in {0, 1}}

VarintTails == {<< >>, <<0>>, <<127>>, <<0, 255>>}

VarintSources ==
    {h \o Rep(f, n) \o t :
        h \in VarintHeads, f \in {0, 128, 255}, n \in 0..MaxFill, t \in VarintTails}

Heads == {<< >>, <<127>>, <<128>>, <<129>>, <<144>>}

Sources == {h \o Rep(f, n) : h \in Heads, f \in {0, 255}, n \in 0..MaxFill}

(***************************************************************************)
(* Bit vectors.                                                            *)
(***************************************************************************)
Pow2(k) == IF k = 0 THEN 1 ELSE IF k = 1 THEN 2 ELSE IF k = 2 THEN 4
           ELSE IF k = 3 THEN 8 ELSE IF k = 4 THEN 16 ELSE IF k = 5 THEN 32
           ELSE IF k = 6 THEN 64 ELSE 128

\* u8::view_bits::<Msb0>(): bit 1 is the most significant
view_bits(b) == [i \in 1..8 |-> (b \div Pow2(8 - i)) % 2]

\* [u8]::view_bits::<Msb0>()
view_bits_bytes(bs) ==
    [i \in 1..(8 * Len(bs)) |-> (bs[((i - 1) \div 8) + 1] \div Pow2(7 - ((i - 1) % 8))) % 2]

\* BitSlice::leading_zeros
leading_zeros(bv) ==
    IF \A i \in 1..Len(bv) : bv[i] = 0 THEN Len(bv)
    ELSE (CHOOSE i \in 1..Len(bv) : bv[i] = 1 /\ \A j \in 1..(i - 1) : bv[j] = 0) - 1

\* faulty variant: collects the drained-away front instead of the kept back
drain_keeps_front(bv, from) == SubSeq(bv, 1, from)

\* bitvec.drain(from..bitvec.len()).collect()
drain_from(bv, from) == SubSeq(bv, from + 1, Len(bv))

\* faulty variant: bits.get(0..), the flag bit is kept in the group
low7_keeps_flag(bits) == bits

\* bits.get(1..bits.len()): the 7 bits after the flag bit
low7(bits) == SubSeq(bits, 2, 8)

\* value of 8 bits, most significant first
BitsToByte(bv, first) ==
    bv[first] * 128 + bv[first + 1] * 64 + bv[first + 2] * 32 + bv[first + 3] * 16
    + bv[first + 4] * 8 + bv[first + 5] * 4 + bv[first + 6] * 2 + bv[first + 7]

\* BitField::load_be::<u128>() of 1..128 bits: the bits are the low end of
\* the integer, the rest is zero.  The result is the 16 bytes of the u128.
load_be_u128(bv) ==
    LET padded == Rep(0, U128_BITS - Len(bv)) \o bv
    IN  [k \in 1..(U128_BITS \div 8) |-> BitsToByte(padded, 8 * (k - 1) + 1)]

\* faulty variant: the boundary is off by one, 128 bits already count as too large
too_large_inclusive(bv) == Len(bv) >= U128_BITS

\* the guard of both overflow panics: more bits than a u128 holds
too_large(bv) == Len(bv) > U128_BITS

\* `x as u128` of a u8
u8_as_u128(b) == Rep(0, (U128_BITS \div 8) - 1) \o <<b>>

(***************************************************************************)
(* Results.                                                                *)
(***************************************************************************)
NoResult == [kind |-> "none", variant |-> "", val |-> << >>, err |-> ""]
Ok(variant, val) == [kind |-> "ok", variant |-> variant, val |-> val, err |-> ""]
\* faulty variant: a failed read is reported as a decoding error
IoErr_as_decoding == [kind |-> "decoding", variant |-> "", val |-> << >>, err |-> "io"]

\* io::Error of kind UnexpectedEof (encoding::Error::Other for the integers)
IoErr == [kind |-> "io", variant |-> "", val |-> << >>, err |-> "UnexpectedEof"]
\* faulty variant: the unsigned reader's message was copied from the signed one
DecodingError_copied_name(name) ==
    [kind |-> "decoding", variant |-> "", val |-> << >>, err |-> "integer"]

\* encoding::Error::DecodingError(name)
DecodingError(name) == [kind |-> "decoding", variant |-> "", val |-> << >>, err |-> name]
Panic(msg) == [kind |-> "panic", variant |-> "", val |-> << >>, err |-> msg]

\* a callee's outcome: the result and the cursor position it leaves
Out(r, p) == [res |-> r, pos |-> p]

(***************************************************************************)
(* The cursor.                                                             *)
(***************************************************************************)
\* bytes left at position p
Remaining(p) == IF p < Len(src) THEN Len(src) - p ELSE 0

\* Cursor::read_exact of n bytes succeeds
CanRead(p, n) == n <= Remaining(p)

\* the n bytes at position p
Bytes(p, n) == SubSeq(src, p + 1, p + n)

\* position after a failed read_exact: the cursor is placed at the end
EofPos == Len(src)

(***************************************************************************)
(* BER.                                                                    *)
(***************************************************************************)
\* u128 > 127
GreaterThan127(v) == (\E k \in 1..(Len(v) - 1) : v[k] # 0) \/ v[Len(v)] > 127

\* faulty variant: the range assertion is compiled out of every build
read_ber_long_form_unasserted(p, num_bytes_to_read) ==
    IF ~CanRead(p, num_bytes_to_read) THEN Out(IoErr, EofPos)
    ELSE
      LET bitvec0 == view_bits_bytes(Bytes(p, num_bytes_to_read))
          bitvec == drain_from(bitvec0, leading_zeros(bitvec0))
          after == p + num_bytes_to_read
      IN  IF too_large(bitvec) THEN Out(Panic("BER value was too large"), after)
          ELSE IF Len(bitvec) = 0 THEN Out(Panic("cannot load from an empty region"), after)
          ELSE Out(Ok("u128", load_be_u128(bitvec)), after)

read_ber_long_form(p, num_bytes_to_read) ==
    IF ~CanRead(p, num_bytes_to_read) THEN Out(IoErr, EofPos)
    ELSE
      LET bitvec0 == view_bits_bytes(Bytes(p, num_bytes_to_read))
          bitvec == drain_from(bitvec0, leading_zeros(bitvec0))
          after == p + num_bytes_to_read
      IN  IF too_large(bitvec) THEN Out(Panic("BER value was too large"), after)
          ELSE IF Len(bitvec) = 0 THEN Out(Panic("cannot load from an empty region"), after)
          ELSE LET val == load_be_u128(bitvec)
               IN  IF debug_assertions /\ ~GreaterThan127(val)
                   THEN Out(Panic("BER long-form value could be stored short-form"), after)
                   ELSE Out(Ok("u128", val), after)

\* faulty variant: the form is decided by the second bit instead of the first
read_ber_wrong_flag_bit(p) ==
    IF ~CanRead(p, 1) THEN Out(IoErr, EofPos)
    ELSE
      LET first_byte == src[p + 1]
          bits == view_bits(first_byte)
      IN  IF bits[2] = 1
          THEN LET num_bytes_to_read == BitsToByte(<<0>> \o low7(bits), 1)
               IN  IF num_bytes_to_read = 0
                   THEN Out(Panic("MSB in BER is 1 but all other bits are 0"), p + 1)
                   ELSE read_ber_long_form(p + 1, num_bytes_to_read)
          ELSE Out(Ok("u128", u8_as_u128(first_byte)), p + 1)

\* faulty variant: the count of a long-form header is not checked for zero
read_ber_unchecked_count(p) ==
    IF ~CanRead(p, 1) THEN Out(IoErr, EofPos)
    ELSE
      LET first_byte == src[p + 1]
          bits == view_bits(first_byte)
      IN  IF bits[1] = 1
          THEN read_ber_long_form(p + 1, BitsToByte(<<0>> \o low7(bits), 1))
          ELSE Out(Ok("u128", u8_as_u128(first_byte)), p + 1)

read_ber(p) ==
    IF ~CanRead(p, 1) THEN Out(IoErr, EofPos)
    ELSE
      LET first_byte == src[p + 1]
          bits == view_bits(first_byte)
      IN  IF bits[1] = 1
          THEN LET num_bytes_to_read == BitsToByte(<<0>> \o low7(bits), 1)
               IN  IF num_bytes_to_read = 0
                   THEN Out(Panic("MSB in BER is 1 but all other bits are 0"), p + 1)
                   ELSE read_ber_long_form(p + 1, num_bytes_to_read)
          ELSE Out(Ok("u128", u8_as_u128(first_byte)), p + 1)

(***************************************************************************)
(* BER-OID.                                                                *)
(***************************************************************************)
RECURSIVE read_ber_oid_loop(_, _)
\* faulty variant: an all-zero buffer is not special-cased before stripping
read_ber_oid_loop_no_zero_case(p, bitvec0) ==
    IF ~CanRead(p, 1) THEN Out(IoErr, EofPos)
    ELSE
      LET bits == view_bits(src[p + 1])
          bitvec == bitvec0 \o low7(bits)
      IN  IF bits[1] = 0
          THEN LET stripped == drain_from(bitvec, leading_zeros(bitvec))
               IN  IF too_large(stripped)
                   THEN Out(Panic("BER-OID value was too large"), p + 1)
                   ELSE IF Len(stripped) = 0
                   THEN Out(Panic("cannot load from an empty region"), p + 1)
                   ELSE Out(Ok("u128", load_be_u128(stripped)), p + 1)
          ELSE IF Len(bitvec) = 7 /\ debug_assertions
                  /\ BitsToByte(<<0>> \o bitvec, 1) = 0
               THEN Out(Panic("Multi-byte BER-OID starts with leading zero"), p + 1)
               ELSE read_ber_oid_loop(p + 1, bitvec)

read_ber_oid_loop(p, bitvec0) ==
    IF ~CanRead(p, 1) THEN Out(IoErr, EofPos)
    ELSE
      LET bits == view_bits(src[p + 1])
          bitvec == bitvec0 \o low7(bits)
      IN  IF bits[1] = 0
          THEN IF Len(bitvec) = leading_zeros(bitvec)
               THEN Out(Ok("u128", u8_as_u128(0)), p + 1)
               ELSE LET stripped == drain_from(bitvec, leading_zeros(bitvec))
                    IN  IF too_large(stripped)
                        THEN Out(Panic("BER-OID value was too large"), p + 1)
                        ELSE Out(Ok("u128", load_be_u128(stripped)), p + 1)
          ELSE IF Len(bitvec) = 7 /\ debug_assertions
                  /\ BitsToByte(<<0>> \o bitvec, 1) = 0
               THEN Out(Panic("Multi-byte BER-OID starts with leading zero"), p + 1)
               ELSE read_ber_oid_loop(p + 1, bitvec)

\* faulty variant: one byte past the terminal byte is consumed
read_ber_oid_reads_ahead(p) ==
    LET out == read_ber_oid_loop(p, << >>)
    IN  Out(out.res, IF out.res.kind = "ok" /\ out.pos < Len(src) THEN out.pos + 1 ELSE out.pos)

read_ber_oid(p) == read_ber_oid_loop(p, << >>)

(***************************************************************************)
(* Fixed-width integers.  A value is the bytes of its container, most      *)
(* significant first, in two's complement for the signed containers.       *)
(***************************************************************************)
\* byteorder BigEndian::read_uint: nbytes bytes into a u64
read_uint(bs) == Rep(0, 8 - Len(bs)) \o bs

\* `v << (8 * k)` on a fixed-width container
shl_bytes(v, k) == SubSeq(v, k + 1, Len(v)) \o Rep(0, k)

\* `v >> (8 * k)` on a signed container (arithmetic shift)
sar_bytes(v, k) == Rep(IF v[1] >= 128 THEN 255 ELSE 0, k) \o SubSeq(v, 1, Len(v) - k)

\* faulty variant: the right shift is logical, the value is zero-extended
extend_sign_logical(v, nbytes) ==
    Rep(0, 8 - nbytes) \o SubSeq(shl_bytes(v, 8 - nbytes), 1, nbytes)

\* byteorder extend_sign: (val << shift) as i64 >> shift, shift = (8 - nbytes) * 8
extend_sign(v, nbytes) == sar_bytes(shl_bytes(v, 8 - nbytes), 8 - nbytes)

\* byteorder ReadBytesExt::read_int::<BigEndian>(nbytes)
read_int(bs) == extend_sign(read_uint(bs), Len(bs))

\* i64 -> i32 TryFrom succeeds
FitsI32(v) ==
    \/ (\A k \in 1..4 : v[k] = 0) /\ v[5] < 128
    \/ (\A k \in 1..4 : v[k] = 255) /\ v[5] >= 128

\* u64 -> u32 TryFrom succeeds
FitsU32(v) == \A k \in 1..4 : v[k] = 0

\* BitField::load_be::<i128>(): a region shorter than the integer is
\* sign-extended from its first bit
load_be_i128(bv) ==
    LET padded == Rep(bv[1], U128_BITS - Len(bv)) \o bv
    IN  [k \in 1..(U128_BITS \div 8) |-> BitsToByte(padded, 8 * (k - 1) + 1)]

\* the 9..=16 arm of read_integer: move the sign bit to the front of 128 bits
widen_i128(bytes) ==
    LET initial_bits == view_bits_bytes(bytes)
        is_negative == initial_bits[1] = 1
        cleared == IF is_negative THEN <<0>> \o Tail(initial_bits) ELSE initial_bits
        grown == Rep(0, U128_BITS - Len(cleared)) \o cleared
        bits_mut == IF is_negative THEN <<1>> \o Tail(grown) ELSE grown
    IN  load_be_i128(bits_mut)

read_integer(p, length) ==
    IF length = 0 \/ length > 16 THEN Out(DecodingError("integer"), p)
    ELSE IF ~CanRead(p, length) THEN Out(IoErr, EofPos)
    ELSE
      LET bytes == Bytes(p, length)
          after == p + length
      IN  IF length = 1 THEN Out(Ok("I8", bytes), after)
          ELSE IF length = 2 THEN Out(Ok("I16", bytes), after)
          ELSE IF length \in {3, 4}
               THEN IF FitsI32(read_int(bytes))
                    THEN Out(Ok("I32", SubSeq(read_int(bytes), 5, 8)), after)
                    ELSE Out(Panic("bytes do not fit in an i32"), after)
          ELSE IF length \in 5..8 THEN Out(Ok("I64", read_int(bytes)), after)
          ELSE Out(Ok("I128", widen_i128(bytes)), after)

\* faulty variant: the 64-bit arm ends one length early
read_unsigned_integer_short_arm(p, length) ==
    IF length = 0 \/ length > 16 THEN Out(DecodingError("unsigned_integer"), p)
    ELSE IF ~CanRead(p, length) THEN Out(IoErr, EofPos)
    ELSE
      LET bytes == Bytes(p, length)
          after == p + length
      IN  IF length = 1 THEN Out(Ok("U8", bytes), after)
          ELSE IF length = 2 THEN Out(Ok("U16", bytes), after)
          ELSE IF length \in {3, 4}
               THEN IF FitsU32(read_uint(bytes))
                    THEN Out(Ok("U32", SubSeq(read_uint(bytes), 5, 8)), after)
                    ELSE Out(Panic("bytes do not fit in a u32"), after)
          ELSE IF length \in 5..7 THEN Out(Ok("U64", read_uint(bytes)), after)
          ELSE Out(Ok("U128", load_be_u128(view_bits_bytes(bytes))), after)

read_unsigned_integer(p, length) ==
    IF length = 0 \/ length > 16 THEN Out(DecodingError("unsigned_integer"), p)
    ELSE IF ~CanRead(p, length) THEN Out(IoErr, EofPos)
    ELSE
      LET bytes == Bytes(p, length)
          after == p + length
      IN  IF length = 1 THEN Out(Ok("U8", bytes), after)
          ELSE IF length = 2 THEN Out(Ok("U16", bytes), after)
          ELSE IF length \in {3, 4}
               THEN IF FitsU32(read_uint(bytes))
                    THEN Out(Ok("U32", SubSeq(read_uint(bytes), 5, 8)), after)
                    ELSE Out(Panic("bytes do not fit in a u32"), after)
          ELSE IF length \in 5..8 THEN Out(Ok("U64", read_uint(bytes)), after)
          ELSE Out(Ok("U128", load_be_u128(view_bits_bytes(bytes))), after)

(***************************************************************************)
(* The state machine: one cursor over one source, decoded call by call.    *)
(* A panic ends the process.                                               *)
(***************************************************************************)
\* no operation is in progress: there are no local variables
NoFrame == [search_buffer |-> << >>, locations |-> << >>]

Fresh ==
    /\ pos = 0
    /\ debug_assertions \in BOOLEAN
    /\ op = "none"
    /\ arg = 0
    /\ pos0 = 0
    /\ res = NoResult
    /\ klvs = << >>
    /\ fetched = 0
    /\ prev = [op |-> "none", arg |-> 0, res |-> NoResult]
    /\ recorded = << >>
    /\ pc = "idle"
    /\ frame = NoFrame
    /\ borrowed = 0
    /\ lengths = << >>
    /\ last_parsed = << >>

\* the integer and varint decoders take no Universal Key
NoKey == key = << >>

Init == src \in Sources /\ NoKey /\ Fresh

InitVarint == src \in VarintSources /\ NoKey /\ Fresh

Running == res.kind # "panic"

Call(name, length, out) ==
    /\ op' = name
    /\ arg' = length
    /\ pos0' = pos
    /\ pos' = out.pos
    /\ res' = out.res
    /\ UNCHANGED <<src, debug_assertions, key, klvs, fetched, prev, recorded,
                   pc, frame, borrowed, lengths, last_parsed>>

ReadBer == Running /\ Call("read_ber", 0, read_ber(pos))

ReadBerOid == Running /\ Call("read_ber_oid", 0, read_ber_oid(pos))

ReadInteger ==
    Running /\ \E length \in 0..MaxLength :
        Call("read_integer", length, read_integer(pos, length))

ReadUnsignedInteger ==
    Running /\ \E length \in 0..MaxLength :
        Call("read_unsigned_integer", length, read_unsigned_integer(pos, length))

\* counts of bytes read_ber_long_form is called with: none, one, two and the
\* longest
LongFormCounts == {0, 1, 2, MaxLength}

\* read_ber_long_form called on its own, with the count of bytes to read
ReadBerLongForm ==
    Running /\ \E num_bytes_to_read \in LongFormCounts :
        Call("read_ber_long_form", num_bytes_to_read,
             read_ber_long_form(pos, num_bytes_to_read))

Next ==
    \/ ReadBer
    \/ ReadBerLongForm
    \/ ReadBerOid
    \/ ReadInteger
    \/ ReadUnsignedInteger

Spec == Init /\ [][Next]_vars

\* the varint codecs alone, over the sources that reach their 128-bit boundary
NextVarint ==
    \/ ReadBer
    \/ ReadBerLongForm
    \/ ReadBerOid

SpecVarint == InitVarint /\ [][NextVarint]_vars

(***************************************************************************)
(* Reference definitions for the properties: what the last call was given, *)
(* and the values the specification expects, computed on bytes and not on  *)
(* bit vectors.                                                            *)
(***************************************************************************)
\* the byte at the position the last call started from
FirstByte == src[pos0 + 1]

\* bytes that were left when the last call started
LeftAtStart == IF pos0 < Len(src) THEN Len(src) - pos0 ELSE 0

\* a byte sequence without its leading zero bytes
RECURSIVE StripZeroBytes(_)
StripZeroBytes(bs) ==
    IF bs = << >> \/ Head(bs) # 0 THEN bs ELSE StripZeroBytes(Tail(bs))

\* at most 16 bytes as the big-endian bytes of a u128
AsU128(bs) == [k \in 1..16 |-> IF k + Len(bs) > 16 THEN bs[k + Len(bs) - 16] ELSE 0]

\* the u128 whose value is the one-byte number n
IsNumber(v, n) == Len(v) = 16 /\ v[16] = n /\ \A k \in 1..15 : v[k] = 0

\* -- BER ---------------------------------------------------------------
\* the last call was read_ber on a short-form byte
BerShort == op = "read_ber" /\ LeftAtStart >= 1 /\ FirstByte < 128

\* the count N of a long-form header
BerN == FirstByte - 128

\* the last call was read_ber on a long-form header with N in 1..127 and
\* its N bytes present
BerLong == op = "read_ber" /\ LeftAtStart >= 1 /\ FirstByte > 128 /\ LeftAtStart - 1 >= BerN

BerPayload == SubSeq(src, pos0 + 2, pos0 + 1 + BerN)

\* the payload's value has at most 128 significant bits: once the leading
\* zero bytes are gone, at most 16 bytes are left
BerFits == Len(StripZeroBytes(BerPayload)) <= 16

\* the payload's value is greater than 127
BerAbove127 ==
    LET sig == StripZeroBytes(BerPayload) IN Len(sig) >= 2 \/ (Len(sig) = 1 /\ sig[1] > 127)

\* -- BER-OID -----------------------------------------------------------
\* a byte with its most-significant bit clear exists at or after the start
OidTerminated == \E k \in (pos0 + 1)..Len(src) : src[k] < 128

\* index of the first such byte
OidEnd == CHOOSE k \in (pos0 + 1)..Len(src) :
              src[k] < 128 /\ \A j \in (pos0 + 1)..(k - 1) : src[j] >= 128

\* the last call was read_ber_oid on a terminated encoding
OidWhole == op = "read_ber_oid" /\ OidTerminated

\* the encoding's 7-bit groups: group 1 is the most significant
OidGroupCount == OidEnd - pos0
OidGroup(i) == src[pos0 + i] % 128

\* bit j (bit 0 the least significant) of the number
\*     sum over i of OidGroup(i) * 128^(OidGroupCount - i)
OidBit(j) ==
    LET i == OidGroupCount - (j \div 7)
    IN  IF i >= 1 THEN (OidGroup(i) \div Pow2(j % 7)) % 2 ELSE 0

\* that number has more than 128 significant bits
OidOverflow == \E j \in 128..(7 * OidGroupCount - 1) : OidBit(j) = 1

\* the low 128 bits of that number, as the bytes of a u128
OidExpected ==
    [k \in 1..16 |->
        LET low == 8 * (16 - k)
        IN  OidBit(low) + 2 * OidBit(low + 1) + 4 * OidBit(low + 2) + 8 * OidBit(low + 3)
            + 16 * OidBit(low + 4) + 32 * OidBit(low + 5) + 64 * OidBit(low + 6)
            + 128 * OidBit(low + 7)]

\* a multi-byte encoding whose first group is zero, in a build that checks
\* debug assertions
OidLeadingZeroAsserted ==
    debug_assertions /\ op = "read_ber_oid" /\ LeftAtStart >= 1 /\ FirstByte = 128

(***************************************************************************)
(* C1  BER short form: when the byte at the cursor has its most-           *)
(* significant bit clear, read_ber returns that byte's value as the        *)
(* decoded u128 and leaves the cursor one byte further: no other byte is   *)
(* read.                                                                   *)
(***************************************************************************)
C1_BerShortForm ==
    BerShort => /\ res.kind = "ok"
                /\ IsNumber(res.val, FirstByte)
                /\ pos = pos0 + 1

\* read_ber has decoded the largest short-form byte, after an earlier call
C1_Witness ==
    BerShort /\ pos0 > 0 /\ FirstByte = 127 /\ res.kind = "ok"

(***************************************************************************)
(* C2  BER long form.  As claimed: for a header with N in 1..127 whose N   *)
(* payload bytes are present and carry at most 128 significant bits,       *)
(* read_ber returns the payload read big-endian, for every such payload.   *)
(***************************************************************************)
C2_Original_BerLongFormEveryPayload ==
    (BerLong /\ BerFits) =>
        res = Ok("u128", AsU128(StripZeroBytes(BerPayload)))

(***************************************************************************)
(* C2 as amended: the same, for the payloads whose value is greater than   *)
(* 127, leading zero bytes included.                                       *)
(***************************************************************************)
C2_BerLongFormValue ==
    (BerLong /\ BerFits /\ BerAbove127) =>
        res = Ok("u128", AsU128(StripZeroBytes(BerPayload)))

\* a 17-byte payload with a leading zero byte was decoded to 2^128 - 1
C2_Witness ==
    /\ BerLong /\ BerN = 17 /\ BerPayload[1] = 0
    /\ res = Ok("u128", [k \in 1..16 |-> 255])

(***************************************************************************)
(* C3  Cursor advance of the varint codecs: a successful read_ber leaves   *)
(* the cursor 1 byte further (short form) or 1 + N bytes further (long     *)
(* form); a successful read_ber_oid leaves it just after the first byte    *)
(* whose most-significant bit is clear.                                    *)
(***************************************************************************)
C3_VarintCursorAdvance ==
    res.kind = "ok" =>
        /\ op = "read_ber" =>
              pos = IF FirstByte < 128 THEN pos0 + 1 ELSE pos0 + 1 + BerN
        /\ op = "read_ber_oid" => pos = OidEnd

\* a BER-OID of three or more bytes was decoded from the middle of the
\* source and bytes remain after it
C3_Witness ==
    /\ op = "read_ber_oid" /\ res.kind = "ok"
    /\ pos0 > 0 /\ pos >= pos0 + 3 /\ pos < Len(src)

(***************************************************************************)
(* C4  BER-OID value.  As claimed: for every encoding that ends at its     *)
(* first byte with the most-significant bit clear and carries at most 128  *)
(* significant bits, read_ber_oid returns the number formed by the 7-bit   *)
(* groups, most significant group first.                                   *)
(***************************************************************************)
C4_Original_BerOidEveryEncoding ==
    (OidWhole /\ ~OidOverflow) => res = Ok("u128", OidExpected)

(***************************************************************************)
(* C4 as amended: the same, except that a build with debug assertions      *)
(* does not decode a multi-byte encoding whose first byte is 0x80.         *)
(***************************************************************************)
C4_BerOidValue ==
    (OidWhole /\ ~OidOverflow /\ ~OidLeadingZeroAsserted) =>
        res = Ok("u128", OidExpected)

\* [0xFF, 0x7F] was decoded to 16383 = 0x3FFF
C4_Witness ==
    /\ OidWhole /\ OidEnd = pos0 + 2 /\ FirstByte = 255 /\ src[pos0 + 2] = 127
    /\ res = Ok("u128", [k \in 1..16 |-> IF k = 15 THEN 63 ELSE IF k = 16 THEN 255 ELSE 0])

(***************************************************************************)
(* C5  128-bit boundary.  As claimed: a BER long form whose payload is     *)
(* present, and a terminated BER-OID, return a value exactly when at most  *)
(* 128 significant bits remain, and fail with the overflow fault           *)
(* otherwise.                                                              *)
(***************************************************************************)
C5_Original_ValueExactlyWhenFits ==
    /\ BerLong => /\ res.kind = "ok" <=> BerFits
                  /\ ~BerFits => res = Panic("BER value was too large")
    /\ OidWhole => /\ res.kind = "ok" <=> ~OidOverflow
                   /\ OidOverflow => res = Panic("BER-OID value was too large")

\* a BER long-form payload that the code decodes: its value is above 127,
\* or it is not zero and the build checks no debug assertions
BerDecodable ==
    BerAbove127 \/ (~debug_assertions /\ StripZeroBytes(BerPayload) # << >>)

(***************************************************************************)
(* C5 as amended: with more than 128 significant bits no value is ever     *)
(* returned, the call ends in the overflow fault (in a debug-assertion     *)
(* build a BER-OID starting with 0x80 ends in the leading-zero assertion   *)
(* before that); with at most 128 significant bits a value is returned,    *)
(* except for a BER payload that is zero (any build) or at most 127        *)
(* (debug-assertion build) and for a BER-OID starting with 0x80 followed   *)
(* by more bytes (debug-assertion build).                                  *)
(***************************************************************************)
C5_OverflowBoundary ==
    /\ BerLong => /\ ~BerFits => res = Panic("BER value was too large")
                  /\ BerFits => (res.kind = "ok" <=> BerDecodable)
    /\ OidWhole => /\ OidOverflow =>
                         /\ res.kind = "panic"
                         /\ ~OidLeadingZeroAsserted =>
                                res = Panic("BER-OID value was too large")
                   /\ ~OidOverflow => (res.kind = "ok" <=> ~OidLeadingZeroAsserted)

\* the BER long form of 2^128, [0x91, 0x01, 0x00 * 16], ended in the
\* overflow fault
C5_Witness ==
    /\ BerLong /\ BerN = 17 /\ BerPayload[1] = 1
    /\ \A k \in 2..17 : BerPayload[k] = 0
    /\ res = Panic("BER value was too large")

\* -- fixed-width integers ----------------------------------------------
IntegerCall == op \in {"read_integer", "read_unsigned_integer"}

\* the `length` bytes the last fixed-width call was given
GivenBytes == SubSeq(src, pos0 + 1, pos0 + arg)

\* the container width, in bits, the specification gives a length
WidthFor(length) ==
    IF length = 1 THEN 8
    ELSE IF length = 2 THEN 16
    ELSE IF length \in {3, 4} THEN 32
    ELSE IF length \in 5..8 THEN 64
    ELSE 128

SignedVariants == {"I8", "I16", "I32", "I64", "I128"}
UnsignedVariants == {"U8", "U16", "U32", "U64", "U128"}

VariantBits(variant) ==
    IF variant \in {"I8", "U8"} THEN 8
    ELSE IF variant \in {"I16", "U16"} THEN 16
    ELSE IF variant \in {"I32", "U32"} THEN 32
    ELSE IF variant \in {"I64", "U64"} THEN 64
    ELSE 128

\* big-endian two's-complement bytes sign-extended to w bytes
SignExtended(bs, w) ==
    [k \in 1..w |-> IF k <= w - Len(bs) THEN (IF bs[1] >= 128 THEN 255 ELSE 0)
                    ELSE bs[k - (w - Len(bs))]]

\* the source ended before a byte the last call required
Exhausted ==
    \/ op = "read_ber" /\ (LeftAtStart = 0 \/ (FirstByte > 128 /\ LeftAtStart - 1 < BerN))
    \/ op = "read_ber_oid" /\ ~OidTerminated
    \/ IntegerCall /\ arg \in 1..16 /\ LeftAtStart < arg

IsUnexpectedEof == res.kind = "io" /\ res.err = "UnexpectedEof" /\ res.val = << >>

(***************************************************************************)
(* C6  I/O exhaustion.  As claimed: whenever the source ends before a      *)
(* required byte, the decoder returns an I/O error of kind UnexpectedEof.  *)
(***************************************************************************)
C6_Original_ExhaustionIsIoError == Exhausted => IsUnexpectedEof

(***************************************************************************)
(* C6 as amended: the same, and never a value, except that in a build with *)
(* debug assertions a BER-OID whose first byte is 0x80 ends in the         *)
(* leading-zero assertion before the missing byte is asked for.            *)
(***************************************************************************)
C6_ExhaustionIsIoError ==
    Exhausted => /\ res.kind # "ok"
                 /\ IF OidLeadingZeroAsserted THEN res.kind = "panic" ELSE IsUnexpectedEof

\* a BER long-form header announcing 16 bytes found 15 and got the I/O error
C6_Witness ==
    /\ op = "read_ber" /\ LeftAtStart = 16 /\ FirstByte = 144
    /\ IsUnexpectedEof

(***************************************************************************)
(* C7  Container selection: a fixed-width read of `length` bytes that are  *)
(* present returns, whatever the bytes are, the 8-bit variant for length   *)
(* 1, 16-bit for 2, 32-bit for 3 and 4, 64-bit for 5..8 and 128-bit for    *)
(* 9..16, signed from read_integer and unsigned from                       *)
(* read_unsigned_integer.                                                  *)
(***************************************************************************)
C7_ContainerByLength ==
    (IntegerCall /\ arg \in 1..16 /\ LeftAtStart >= arg) =>
        /\ res.kind = "ok"
        /\ res.variant \in (IF op = "read_integer" THEN SignedVariants ELSE UnsignedVariants)
        /\ VariantBits(res.variant) = WidthFor(arg)
        /\ 8 * Len(res.val) = WidthFor(arg)

\* 8 bytes starting with 0xFF were read as an unsigned 64-bit value
C7_Witness ==
    /\ op = "read_unsigned_integer" /\ arg = 8 /\ LeftAtStart >= 8 /\ FirstByte = 255
    /\ res.kind = "ok" /\ res.variant = "U64"

(***************************************************************************)
(* C8  Length validation: for length 0 and every length above 16,          *)
(* read_integer fails with the decoding error naming "integer" and         *)
(* read_unsigned_integer with the one naming "unsigned_integer"; the       *)
(* cursor stays where it was and nothing faults, whatever the source       *)
(* holds.                                                                  *)
(***************************************************************************)
C8_LengthValidation ==
    (IntegerCall /\ (arg = 0 \/ arg > 16)) =>
        /\ res.kind = "decoding"
        /\ res.err = (IF op = "read_integer" THEN "integer" ELSE "unsigned_integer")
        /\ pos = pos0

\* length 17 was refused by read_unsigned_integer in the middle of a source
\* that had 17 bytes left
C8_Witness ==
    /\ op = "read_unsigned_integer" /\ arg = 17 /\ pos0 > 0 /\ LeftAtStart >= 17
    /\ res.kind = "decoding"

(***************************************************************************)
(* C9  Sign-bit relocation, as claimed: for every length in 9..16,         *)
(* read_integer over `length` bytes that are all 0xFF returns the 128-bit  *)
(* signed value -1 (sixteen 0xFF bytes).                                   *)
(***************************************************************************)
C9_AllOnesIsMinusOne ==
    (/\ op = "read_integer" /\ arg \in 9..16 /\ LeftAtStart >= arg
     /\ \A k \in 1..arg : GivenBytes[k] = 255)
        => res = Ok("I128", [k \in 1..16 |-> 255])

(***************************************************************************)
(* C10  Signed widening: for every length in 1..8 and for length 16,       *)
(* read_integer returns the bytes read big-endian as a two's-complement    *)
(* number, sign-extended to the container selected for the length.         *)
(***************************************************************************)
C10_SignedWidening ==
    (op = "read_integer" /\ arg \in (1..8) \cup {16} /\ LeftAtStart >= arg) =>
        /\ res.kind = "ok"
        /\ res.variant \in SignedVariants
        /\ res.val = SignExtended(GivenBytes, WidthFor(arg) \div 8)

\* the 3 bytes 0xFFFFFF were read as the 32-bit value -1
C10_Witness ==
    /\ op = "read_integer" /\ arg = 3 /\ LeftAtStart >= 3
    /\ GivenBytes = <<255, 255, 255>>
    /\ res = Ok("I32", <<255, 255, 255, 255>>)

(***************************************************************************)
(* The Triplet reader (klv.rs).  A Triplet is its tag (the 16 bytes of a   *)
(* u128), its length and the offset of its first value byte.  Cursor       *)
(* positions and Triplet lengths are numbers: the generated sources hold   *)
(* no length field from 2^31 to 2^63 - 1, so every position the cursor     *)
(* can be moved to is below 2^31 + the size of the source.                 *)
(***************************************************************************)
\* longest run of value bytes in a generated Triplet source
MaxValue == 3
\* most Triplets the program keeps at a time
MaxKlvs == 2

\* value bytes, all different: 3, 4, 5, ...
ValueBytes(n) == [i \in 1..n |-> i + 2]

KlvTags == {<<1>>, <<129, 0>>, <<128, 1>>}

\* length fields: 0, 2, 3, 128, a long form of 2, of 0, the header 0x80,
\* 2^64 - 1 and 2^64
KlvLengths ==
    {<<0>>, <<2>>, <<3>>, <<129, 128>>, <<129, 2>>, <<129, 0>>, <<128>>,
     <<136>> \o Rep(255, 8), <<137, 1>> \o Rep(0, 8)}

\* what follows the first Triplet
KlvRests == {<< >>, <<1, 2, 3, 4>>, <<129>>, <<2, 1, 9>>, <<5, 0>>}

KlvSources ==
    {t \o l \o ValueBytes(n) \o r :
        t \in KlvTags, l \in KlvLengths, n \in 0..MaxValue, r \in KlvRests}

\* u128 -> u64 TryFrom succeeds
FitsU64(v) == \A k \in 1..8 : v[k] = 0

\* the u64 a fitting u128 converts to: its low 8 bytes
as_u64(v) == SubSeq(v, 9, 16)

\* u64 -> i64 TryFrom succeeds
FitsI64(v) == v[1] < 128

\* the number a u64 below 2^31 holds
U64ToInt(v) == ((v[5] * 256 + v[6]) * 256 + v[7]) * 256 + v[8]

read_tag(p) == read_ber_oid(p)

\* the closure of read_length: val.try_into().expect(..) on a decoded value
expect_u64(out) ==
    IF out.res.kind # "ok" THEN out
    ELSE IF ~FitsU64(out.res.val)
         THEN Out(Panic("Seek trait only supports 64 bit integers"), out.pos)
         ELSE Out(Ok("u64", as_u64(out.res.val)), out.pos)

read_length(p) == expect_u64(read_ber(p))

\* faulty variant: the jump lands one byte too far
seek_relative_one_too_far(p, offset) == p + offset + 1

\* Seek::seek_relative on a Cursor: any position at or past the end of the
\* source is accepted
seek_relative(p, offset) == p + offset

Triplet(tag, length, value_offset) ==
    [tag |-> tag, length |-> length, value_offset |-> value_offset]

\* outcome of a Triplet operation: the result, the cursor position it
\* leaves, and the cursor position just after its last read
KlvOut(r, p, f) == [res |-> r, pos |-> p, fetched |-> f]

\* faulty variant: the offset is recorded before the length field is read
skip_value_offset_before_length(tag, length) ==
    IF length.res.kind # "ok" THEN KlvOut(length.res, length.pos, length.pos)
    ELSE IF ~FitsI64(length.res.val)
         THEN KlvOut(Panic("called Result::unwrap() on an Err value"),
                     length.pos, length.pos)
         ELSE KlvOut(Ok("Klv", Triplet(tag.res.val, U64ToInt(length.res.val), tag.pos)),
                     seek_relative(length.pos, U64ToInt(length.res.val)), length.pos)

\* Klv::new once the tag and the length field have been read: the offset
\* is taken, the value is skipped and the Triplet is built
skip_value(tag, length) ==
    IF length.res.kind # "ok" THEN KlvOut(length.res, length.pos, length.pos)
    ELSE IF ~FitsI64(length.res.val)
         THEN KlvOut(Panic("called Result::unwrap() on an Err value"),
                     length.pos, length.pos)
         ELSE LET starting_offset == length.pos
                  n == U64ToInt(length.res.val)
              IN  KlvOut(Ok("Klv", Triplet(tag.res.val, n, starting_offset)),
                         seek_relative(starting_offset, n), length.pos)

\* Klv::new once the tag has been read
after_tag(tag) ==
    IF tag.res.kind # "ok" THEN KlvOut(tag.res, tag.pos, tag.pos)
    ELSE skip_value(tag, read_length(tag.pos))

\* Klv::new
Klv_new(p) == after_tag(read_tag(p))

\* faulty variant: the saved position is not restored after the read
read_value_no_restore(klv, p) ==
    IF ~CanRead(klv.value_offset, klv.length) THEN KlvOut(IoErr, EofPos, EofPos)
    ELSE KlvOut(Ok("Vec<u8>", Bytes(klv.value_offset, klv.length)),
                klv.value_offset + klv.length, klv.value_offset + klv.length)

\* Klv::read_value: a failed read_exact returns before the position is
\* restored
read_value(klv, p) ==
    LET current_position == p
    IN  IF ~CanRead(klv.value_offset, klv.length) THEN KlvOut(IoErr, EofPos, EofPos)
        ELSE KlvOut(Ok("Vec<u8>", Bytes(klv.value_offset, klv.length)),
                    current_position, klv.value_offset + klv.length)

(***************************************************************************)
(* The Triplet state machine: Triplets are read one after the other from   *)
(* the shared cursor and their values are read in between.                 *)
(***************************************************************************)
InitKlv == src \in KlvSources /\ NoKey /\ Fresh

KlvCall(name, a, out) ==
    /\ op' = name
    /\ arg' = a
    /\ pos0' = pos
    /\ pos' = out.pos
    /\ res' = out.res
    /\ fetched' = out.fetched
    /\ prev' = [op |-> op, arg |-> arg, res |-> res]
    /\ UNCHANGED <<src, debug_assertions, key, recorded, pc, frame, borrowed,
                   lengths, last_parsed>>

KlvNew ==
    /\ Running
    /\ pc = "idle"
    /\ Len(klvs) < MaxKlvs
    /\ KlvCall("Klv::new", 0, Klv_new(pos))
    /\ klvs' = IF res'.kind = "ok" THEN Append(klvs, res'.val) ELSE klvs

ReadValue ==
    /\ Running
    /\ \E i \in 1..Len(klvs) : KlvCall("read_value", i, read_value(klvs[i], pos))
    /\ UNCHANGED klvs

\* outcome of a decoder called on the cursor: its last read is where it
\* leaves the cursor
field_out(out) == KlvOut(out.res, out.pos, out.pos)

\* Klv::read_tag called on its own
ReadTag ==
    /\ Running
    /\ KlvCall("read_tag", 0, field_out(read_tag(pos)))
    /\ UNCHANGED klvs

\* Klv::read_length called on its own
ReadLength ==
    /\ Running
    /\ KlvCall("read_length", 0, field_out(read_length(pos)))
    /\ UNCHANGED klvs

NextKlv ==
    \/ KlvNew
    \/ ReadValue
    \/ ReadTag
    \/ ReadLength

SpecKlv == InitKlv /\ [][NextKlv]_vars

\* -- Triplets ----------------------------------------------------------
\* the Triplet the last read_value was called on
ReadKlv == klvs[arg]

\* a Triplet's value span lies inside the source
SpanInside(klv) == klv.value_offset + klv.length <= Len(src)

(***************************************************************************)
(* C11  Value read idempotence: for a Triplet whose value span lies inside *)
(* the source, read_value returns the `length` source bytes starting at    *)
(* value_offset, a call that follows another call on the same Triplet      *)
(* returns the same bytes, and the cursor is where it was before the call. *)
(***************************************************************************)
C11_ReadValueIdempotent ==
    (op = "read_value" /\ SpanInside(ReadKlv)) =>
        /\ res.kind = "ok"
        /\ Len(res.val) = ReadKlv.length
        /\ \A i \in 1..ReadKlv.length : res.val[i] = src[ReadKlv.value_offset + i]
        /\ pos = pos0
        /\ (prev.op = "read_value" /\ prev.arg = arg) => prev.res = res

\* the 3-byte value of the first Triplet was read twice in a row after the
\* second Triplet had moved the cursor on
C11_Witness ==
    /\ op = "read_value" /\ arg = 1 /\ Len(klvs) = 2
    /\ prev.op = "read_value" /\ prev.arg = 1
    /\ ReadKlv.length = 3 /\ pos0 # ReadKlv.value_offset + 3
    /\ res = Ok("Vec<u8>", <<3, 4, 5>>)

\* the last call was a Klv::new that returned a Triplet
NewKlv == op = "Klv::new" /\ res.kind = "ok"

\* bytes of the BER-OID tag at the position the last call started from
TagBytes == OidEnd - pos0

\* bytes of the BER length field after that tag: 1 for the short form,
\* 1 + N for the long form
LengthFieldBytes ==
    IF src[OidEnd + 1] < 128 THEN 1 ELSE 1 + (src[OidEnd + 1] - 128)

(***************************************************************************)
(* C12  Triplet read positions: when Klv::new succeeds from position p,    *)
(* value_offset is p plus the bytes of the tag plus the bytes of the       *)
(* length field, the cursor is left at value_offset + length, and nothing  *)
(* at or after value_offset has been read.                                 *)
(***************************************************************************)
C12_TripletPositions ==
    NewKlv =>
        /\ OidTerminated /\ OidEnd < Len(src)
        /\ res.val.value_offset = pos0 + TagBytes + LengthFieldBytes
        /\ pos = res.val.value_offset + res.val.length
        /\ fetched = res.val.value_offset

\* a Triplet with a 2-byte tag, a 2-byte length field and 2 value bytes was
\* read, and bytes remain after its value
C12_Witness ==
    /\ NewKlv /\ TagBytes = 2 /\ LengthFieldBytes = 2
    /\ res.val.length = 2 /\ pos < Len(src)

(***************************************************************************)
(* C13  Triplet bounds, as claimed: every Triplet a successful Klv::new    *)
(* produces has value_offset + length <= the size of the source; a         *)
(* declared length that runs past the end of the source makes the read     *)
(* fail.                                                                   *)
(***************************************************************************)
C13_TripletBounds == NewKlv => SpanInside(res.val)

(***************************************************************************)
(* The Universal Set locator (universal_set.rs).                           *)
(***************************************************************************)
\* Length of a Universal Key
UNIVERSAL_KEY_LENGTH == 16

\* the key of the tests
TEST_UNIVERSAL_KEY == <<6, 14, 43, 52, 2, 11, 1, 1, 14, 1, 3, 1, 1, 0, 0, 0>>

\* a key of one repeated byte
RepeatedKey == Rep(1, UNIVERSAL_KEY_LENGTH)

\* a key whose first two bytes are also its last two
BorderedKey == <<1, 2, 3, 4, 5, 6, 7, 8, 9, 10, 11, 12, 13, 14, 1, 2>>

\* a key of one repeated byte that, read as a length field, declares a value
\* of two bytes
RepeatedLengthKey == Rep(2, UNIVERSAL_KEY_LENGTH)

Keys == {TEST_UNIVERSAL_KEY, RepeatedKey, BorderedKey, RepeatedLengthKey}

\* faulty variant: the new offset is put in front of the recorded ones
push_front(locations, start_pos) == <<start_pos>> \o locations

\* locations.push(start_pos)
push(locations, start_pos) == Append(locations, start_pos)

\* search_buffer.enqueue(val) on a full ring buffer: the oldest byte goes
enqueue(search_buffer, val) == Tail(search_buffer) \o <<val>>

\* outcome of a locate: the result, the cursor position it leaves, and the
\* offsets pushed to `locations` before it returned (dropped on an error)
ScanOut(r, p, locations) == [res |-> r, pos |-> p, recorded |-> locations]

\* outcome of one pass of the scan loop: the cursor position, the window and
\* the offsets after it, and the result when the pass ends the scan
\* (NoResult when the loop goes on)
PassOut(r, p, search_buffer, locations) ==
    [res |-> r, pos |-> p, search_buffer |-> search_buffer, locations |-> locations]

\* the end of a pass of the loop: read one byte into the window, or stop at
\* the end of the source
read_next(p, search_buffer, locations) ==
    IF ~CanRead(p, 1)
    THEN PassOut(Ok("Vec<u64>", locations), EofPos, search_buffer, locations)
    ELSE PassOut(NoResult, p + 1, enqueue(search_buffer, src[p + 1]), locations)

\* faulty variant: a length field that cannot be read is skipped and the
\* scan goes on
jump_over_value_lenient(search_buffer, locations, value_length) ==
    IF value_length.res.kind = "io"
    THEN read_next(value_length.pos, search_buffer, locations)
    ELSE IF value_length.res.kind # "ok"
         THEN PassOut(value_length.res, value_length.pos, search_buffer, locations)
         ELSE IF ~FitsI64(value_length.res.val)
              THEN PassOut(Panic("Failed to convert u64 to i64 trying to jump over value"),
                           value_length.pos, search_buffer, locations)
              ELSE read_next(seek_relative(value_length.pos, U64ToInt(value_length.res.val)),
                             search_buffer, locations)

\* a pass of the loop after a match, once the length field has been read:
\* the error is returned, or the value is jumped over
jump_over_value(search_buffer, locations, value_length) ==
    IF value_length.res.kind # "ok"
    THEN PassOut(value_length.res, value_length.pos, search_buffer, locations)
    ELSE IF ~FitsI64(value_length.res.val)
         THEN PassOut(Panic("Failed to convert u64 to i64 trying to jump over value"),
                      value_length.pos, search_buffer, locations)
         ELSE read_next(seek_relative(value_length.pos, U64ToInt(value_length.res.val)),
                        search_buffer, locations)

\* faulty variant: the pass does not read a byte when the window is not the
\* key
pass_reads_nothing(k, p, search_buffer, locations, value_length) ==
    IF search_buffer = k
    THEN IF p < UNIVERSAL_KEY_LENGTH
         THEN PassOut(Panic("Starting position of Key results in a negative offset"),
                      p, search_buffer, locations)
         ELSE jump_over_value(search_buffer, push(locations, p - UNIVERSAL_KEY_LENGTH),
                              value_length)
    ELSE IF ~CanRead(p, 1)
         THEN PassOut(Ok("Vec<u64>", locations), EofPos, search_buffer, locations)
         ELSE PassOut(NoResult, p, search_buffer, locations)

\* one pass of the scan loop, entered with the cursor at p; value_length is
\* what Klv::read_length gives at p, taken when the window is the key
pass(k, p, search_buffer, locations, value_length) ==
    IF search_buffer = k
    THEN IF p < UNIVERSAL_KEY_LENGTH
         THEN PassOut(Panic("Starting position of Key results in a negative offset"),
                      p, search_buffer, locations)
         ELSE jump_over_value(search_buffer, push(locations, p - UNIVERSAL_KEY_LENGTH),
                              value_length)
    ELSE read_next(p, search_buffer, locations)

\* one pass of the scan loop of start_locations
scan_pass(k, p, search_buffer, locations) ==
    pass(k, p, search_buffer, locations, read_length(p))

RECURSIVE scan_loop(_, _, _, _)

\* after a pass: the loop is entered again, or the scan returns
next_pass(k, out) ==
    IF out.res = NoResult THEN scan_loop(k, out.pos, out.search_buffer, out.locations)
    ELSE ScanOut(out.res, out.pos, out.locations)

\* the scan loop of start_locations, entered with the cursor at p
scan_loop(k, p, search_buffer, locations) ==
    next_pass(k, scan_pass(k, p, search_buffer, locations))

\* UniversalSet::start_locations
start_locations(k, p) ==
    IF ~CanRead(p, UNIVERSAL_KEY_LENGTH) THEN ScanOut(Ok("Vec<u64>", << >>), EofPos, << >>)
    ELSE scan_loop(k, p + UNIVERSAL_KEY_LENGTH, Bytes(p, UNIVERSAL_KEY_LENGTH), << >>)

(***************************************************************************)
(* The Local Set reader.  LocalSet::read is called by UniversalSet::new    *)
(* with the offset of a key occurrence; it is modelled from the            *)
(* specification's sections 4.4 and 4.5: seek past the key, decode the     *)
(* length field, then read Triplets back to back until the cursor is at    *)
(* the end of the span.  The mapping is a set of Triplets with at most one *)
(* Triplet per tag.                                                        *)
(***************************************************************************)
\* outcome of a Local Set read: the result, the cursor position it leaves,
\* and the Triplets it parsed, in order
SetOut(r, p, parsed) == [res |-> r, pos |-> p, parsed |-> parsed]

\* insertion into the tag-indexed mapping: a later Triplet replaces an
\* earlier one with the same tag
insert(data, klv) == {t \in data : t.tag # klv.tag} \cup {klv}

RECURSIVE local_set_loop(_, _, _, _)

\* one Triplet read of the Local Set: its error is returned, a Triplet that
\* ends past the span is refused, any other is inserted
local_set_insert(end_offset, data, parsed, klv) ==
    IF klv.res.kind # "ok" THEN SetOut(klv.res, klv.pos, parsed)
    ELSE IF klv.pos > end_offset
         THEN SetOut(DecodingError("local_set"), klv.pos, parsed)
         ELSE local_set_loop(klv.pos, end_offset, insert(data, klv.res.val),
                             Append(parsed, klv.res.val))

local_set_loop(p, end_offset, data, parsed) ==
    IF p = end_offset THEN SetOut(Ok("LocalSet", data), p, parsed)
    ELSE local_set_insert(end_offset, data, parsed, Klv_new(p))

\* the Local Set over the span the length field declares
local_set_span(length) ==
    IF length.res.kind # "ok" THEN SetOut(length.res, length.pos, << >>)
    ELSE IF ~FitsI64(length.res.val)
         THEN SetOut(Panic("length does not fit a seek offset"), length.pos, << >>)
         ELSE local_set_loop(length.pos, length.pos + U64ToInt(length.res.val), {}, << >>)

LocalSet_read(starting_location, p) ==
    local_set_span(read_length(starting_location + UNIVERSAL_KEY_LENGTH))

\* Ok(Self { key, data }) around the Local Set, or its error
universal_set(k, data) ==
    IF data.res.kind # "ok" THEN data
    ELSE SetOut(Ok("UniversalSet", [key |-> k, data |-> data.res.val]),
                data.pos, data.parsed)

\* UniversalSet::new
UniversalSet_new(k, p, starting_location) ==
    universal_set(k, LocalSet_read(starting_location, p))

RECURSIVE collect_sets(_, _, _, _, _)

\* faulty variant: a set that fails to build is left out and the rest is
\* still collected
collect_one_lenient(k, locations, i, sets, set) ==
    IF set.res.kind = "panic" THEN Out(set.res, set.pos)
    ELSE IF set.res.kind # "ok"
         THEN collect_sets(k, set.pos, locations, i + 1, sets)
         ELSE collect_sets(k, set.pos, locations, i + 1, Append(sets, set.res.val))

\* collect() on one mapped item: the first error ends the collection
collect_one(k, locations, i, sets, set) ==
    IF set.res.kind # "ok" THEN Out(set.res, set.pos)
    ELSE collect_sets(k, set.pos, locations, i + 1, Append(sets, set.res.val))

\* the map(..).collect() of read_all: the sets in order, or the first error
collect_sets(k, p, locations, i, sets) ==
    IF i > Len(locations) THEN Out(Ok("Vec<UniversalSet>", sets), p)
    ELSE collect_one(k, locations, i, sets, UniversalSet_new(k, p, locations[i]))

\* the result of read_all with the offsets the locate had recorded
with_recorded(out, locations) == ScanOut(out.res, out.pos, locations)

\* read_all once the locate has returned
build_sets(k, locations) ==
    IF locations.res.kind # "ok" THEN locations
    ELSE with_recorded(collect_sets(k, locations.pos, locations.res.val, 1, << >>),
                       locations.recorded)

\* UniversalSet::read_all
read_all(k, p) == build_sets(k, start_locations(k, p))

(***************************************************************************)
(* Sources for the locator: bytes before the first key, a key occurrence   *)
(* with what follows it, a gap, and a second key occurrence with what      *)
(* follows it.                                                             *)
(***************************************************************************)
\* longest run of filler bytes in a generated value
MaxPayload == 15

Prefixes == {<< >>, <<6>>}

\* what follows a key occurrence: a length field and value bytes
Bodies(k) ==
    {<< >>, <<0>>, <<4, 1, 2, 3, 4>>, <<7, 1, 1, 2, 2, 2, 4, 8>>,
     <<6, 1, 1, 9, 1, 1, 8>>, <<4, 1, 3, 3, 4>>, <<5, 1, 2>>,
     <<128>>, <<129, 0>>, <<129, 2, 1, 0>>, <<136>> \o Rep(255, 8),
     <<UNIVERSAL_KEY_LENGTH>> \o k, <<0>> \o SubSeq(k, 3, UNIVERSAL_KEY_LENGTH)}
    \cup {<<n>> \o Rep(9, n) : n \in (MaxPayload - 1)..MaxPayload}

\* what follows the first key occurrence; the key that is read as a length
\* is followed by an empty value
FirstBodies(k) == IF k = RepeatedLengthKey THEN {<<0>>} ELSE Bodies(k)

Gaps(k) == {<< >>, <<255, 255, 6>>, <<k[UNIVERSAL_KEY_LENGTH]>>}

SecondBodies == {<< >>, <<0>>, <<4, 1, 2, 3, 4>>, <<7, 1, 1, 2, 2, 2, 4, 8>>, <<5, 1, 2>>}

SetSources(k) ==
    {pre \o first \o gap \o second :
        pre \in Prefixes,
        first \in {<< >>} \cup {k \o b : b \in FirstBodies(k)},
        gap \in Gaps(k),
        second \in {<< >>, SubSeq(k, 1, UNIVERSAL_KEY_LENGTH - 1)}
                   \cup {k \o b : b \in SecondBodies}}

(***************************************************************************)
(* The Universal Set state machine: locate, read all, build one set from a *)
(* located offset, read the values of its Triplets.                        *)
(***************************************************************************)
InitSet == key \in Keys /\ src \in SetSources(key) /\ Fresh

\* u128 a < b, on their 16 bytes
tag_less(a, b) ==
    \E k \in 1..16 : a[k] < b[k] /\ \A j \in 1..(k - 1) : a[j] = b[j]

\* the Triplets of a set in the order the mapping iterates: ascending tag
RECURSIVE by_tag(_)
by_tag(data) ==
    IF data = {} THEN << >>
    ELSE LET first == CHOOSE a \in data : \A b \in data \ {a} : tag_less(a.tag, b.tag)
         IN  <<first>> \o by_tag(data \ {first})

\* the Triplets of the sets a call returned
RECURSIVE klvs_of(_)
klvs_of(sets) ==
    IF sets = << >> THEN << >> ELSE by_tag(Head(sets).data) \o klvs_of(Tail(sets))

\* the Triplets the caller holds after a call: the ones it held, and the
\* ones of the sets the call returned; an error returns none
held(out, sets) == IF out.res.kind = "ok" THEN klvs \o klvs_of(sets) ELSE klvs

\* a locate or read_all; `sets` are the sets it returned
ScanCall(name, out, sets) ==
    /\ op' = name
    /\ arg' = 0
    /\ pos0' = pos
    /\ pos' = out.pos
    /\ res' = out.res
    /\ fetched' = out.pos
    /\ prev' = [op |-> op, arg |-> arg, res |-> res]
    /\ recorded' = out.recorded
    /\ klvs' = held(out, sets)
    /\ UNCHANGED <<src, debug_assertions, key, pc, frame, borrowed, lengths, last_parsed>>

\* the construction of one set: the caller holds the Triplets of the set
\* it returned
SetCall(name, a, out) ==
    /\ op' = name
    /\ arg' = a
    /\ pos0' = pos
    /\ pos' = out.pos
    /\ res' = out.res
    /\ fetched' = out.pos
    /\ prev' = [op |-> op, arg |-> arg, res |-> res]
    /\ klvs' = held(out, IF out.res.kind = "ok" THEN <<out.res.val>> ELSE << >>)
    /\ last_parsed' = out.parsed
    /\ UNCHANGED <<src, debug_assertions, key, recorded, pc, frame, borrowed,
                   lengths>>

StartLocations ==
    Running /\ ScanCall("start_locations", start_locations(key, pos), << >>)

\* the sets a read_all returned
sets_of(out) == IF out.res.kind = "ok" THEN out.res.val ELSE << >>

ReadAll ==
    /\ Running
    /\ \E out \in {read_all(key, pos)} : ScanCall("read_all", out, sets_of(out))

\* offsets UniversalSet::new is called with: the start of the source and the
\* offsets the last locate recorded
StartingLocations == {0} \cup {recorded[i] : i \in 1..Len(recorded)}

\* UniversalSet::new on an offset, while the caller holds fewer than MaxKlvs
\* Triplets
UniversalSetNew ==
    /\ Running
    /\ pc = "idle"
    /\ Len(klvs) < MaxKlvs
    /\ \E starting_location \in StartingLocations :
          SetCall("UniversalSet::new", starting_location,
                  UniversalSet_new(key, pos, starting_location))

NextSet ==
    \/ StartLocations
    \/ ReadAll
    \/ UniversalSetNew
    \/ ReadValue

SpecSet == InitSet /\ [][NextSet]_vars

\* -- the locator -------------------------------------------------------
\* the last call was a start_locations that returned offsets
Located == op = "start_locations" /\ res.kind = "ok"

\* the 16 source bytes from offset s on are the key
IsOccurrence(s) ==
    /\ s + UNIVERSAL_KEY_LENGTH <= Len(src)
    /\ \A i \in 1..UNIVERSAL_KEY_LENGTH : src[s + i] = key[i]

\* bytes of the BER length field at offset q
LengthFieldBytesAt(q) == IF src[q + 1] < 128 THEN 1 ELSE 1 + (src[q + 1] - 128)

\* a byte sequence read as a big-endian number
RECURSIVE BigEndian(_)
BigEndian(bs) ==
    IF bs = << >> THEN 0
    ELSE 256 * BigEndian(SubSeq(bs, 1, Len(bs) - 1)) + bs[Len(bs)]

\* the length the BER length field at offset q declares
DeclaredLengthAt(q) ==
    IF src[q + 1] < 128 THEN src[q + 1]
    ELSE BigEndian(SubSeq(src, q + 2, q + LengthFieldBytesAt(q)))

\* offset t lies in the length field or the value bytes of a match at s
InsideSkipped(s, t) ==
    LET q == s + UNIVERSAL_KEY_LENGTH
    IN  q <= t /\ t < q + LengthFieldBytesAt(q) + DeclaredLengthAt(q)

(***************************************************************************)
(* C14  Locator soundness, as claimed: every offset start_locations        *)
(* returns is the offset of an occurrence of the key in the source, for    *)
(* every key, also one of repeated bytes or with a prefix equal to its     *)
(* suffix.                                                                 *)
(***************************************************************************)
C14_LocatorSound ==
    Located => \A i \in 1..Len(res.val) : IsOccurrence(res.val[i])

(***************************************************************************)
(* C15  Value-span skipping, as claimed: no returned offset lies in the    *)
(* length field or the value bytes of a match returned before it, and a    *)
(* source of two key occurrences, the first with a value that is a copy of *)
(* the key, gives exactly 2 offsets.                                       *)
(***************************************************************************)
KeyCopyInValue ==
    \E pre \in Prefixes, gap \in Gaps(key), b \in SecondBodies :
        src = pre \o key \o <<UNIVERSAL_KEY_LENGTH>> \o key \o gap \o key \o b

C15_ValueSpanSkipped ==
    Located =>
        /\ \A i, j \in 1..Len(res.val) : i < j => ~InsideSkipped(res.val[i], res.val[j])
        /\ (pos0 = 0 /\ KeyCopyInValue) => Len(res.val) = 2

(***************************************************************************)
(* C16  Match ordering: the offsets start_locations returns are strictly   *)
(* ascending.                                                              *)
(***************************************************************************)
C16_Ascending ==
    Located => \A i \in 1..(Len(res.val) - 1) : res.val[i] < res.val[i + 1]

\* the two sets of the test source were located at offsets 1 and 25
C16_Witness ==
    /\ Located /\ key = TEST_UNIVERSAL_KEY /\ pos0 = 0
    /\ res.val = <<1, 25>>

\* the source ends before the BER length field at offset q is complete
LengthTruncatedAt(q) ==
    \/ q >= Len(src)
    \/ src[q + 1] > 128 /\ Len(src) - (q + 1) < src[q + 1] - 128

\* the length field at offset q is the header 0x80
LengthHeaderEmptyAt(q) == q < Len(src) /\ src[q + 1] = 128

(***************************************************************************)
(* C17  Fail-fast locate: when the length field after a matched key cannot *)
(* be decoded, start_locations ends at that match with the decoder's       *)
(* failure and no offsets: the I/O error is returned when the source ends  *)
(* in or before the length field, the decoder's fault is raised for the    *)
(* header 0x80; the scan does not go on to a later match.                  *)
(***************************************************************************)
C17_FailFast ==
    op = "start_locations" =>
        \A i \in 1..Len(recorded) :
            LET q == recorded[i] + UNIVERSAL_KEY_LENGTH
            IN  /\ LengthTruncatedAt(q) => (IsUnexpectedEof /\ i = Len(recorded))
                /\ LengthHeaderEmptyAt(q) =>
                       /\ res = Panic("MSB in BER is 1 but all other bits are 0")
                       /\ i = Len(recorded)

\* the first set was located, the source ended right after the second key,
\* and the locate returned the I/O error
C17_Witness ==
    /\ op = "start_locations" /\ Len(recorded) = 2
    /\ recorded[2] + UNIVERSAL_KEY_LENGTH = Len(src)
    /\ IsOccurrence(recorded[1]) /\ IsOccurrence(recorded[2])
    /\ IsUnexpectedEof

\* -- sets --------------------------------------------------------------
\* where the span of the set at key offset s starts and ends: after the
\* length field that follows the key, for the length it declares
SpanStart(s) ==
    s + UNIVERSAL_KEY_LENGTH + LengthFieldBytesAt(s + UNIVERSAL_KEY_LENGTH)

SpanEnd(s) == SpanStart(s) + DeclaredLengthAt(s + UNIVERSAL_KEY_LENGTH)

\* the length field after the key at offset s is whole and has at most 3
\* payload bytes
LengthFieldWhole(s) ==
    /\ ~LengthTruncatedAt(s + UNIVERSAL_KEY_LENGTH)
    /\ LengthFieldBytesAt(s + UNIVERSAL_KEY_LENGTH) <= 4

\* a Triplet lies in the span of the set at key offset s
InSpan(s, klv) ==
    /\ SpanStart(s) + 2 <= klv.value_offset
    /\ klv.value_offset + klv.length <= SpanEnd(s)

\* the span of the set at key offset s starts with a one-byte tag and a
\* one-byte length that declares more value bytes than the span has left
FirstTripletOvershoots(s) ==
    LET b == SpanStart(s)
    IN  /\ SpanEnd(s) <= Len(src)
        /\ b + 2 <= Len(src) /\ b + 2 <= SpanEnd(s)
        /\ src[b + 1] < 128 /\ src[b + 2] < 128
        /\ b + 2 + src[b + 2] > SpanEnd(s)

(***************************************************************************)
(* C18  read_all result shape: a successful read_all returns one Universal *)
(* Set per offset the locate recorded, in the order of the offsets, the    *)
(* i-th holding the key and only Triplets that lie in the span after the   *)
(* i-th offset (at least one when the span is not empty); when a set       *)
(* cannot be built, because its first Triplet overshoots its span,         *)
(* read_all returns no sets.                                               *)
(***************************************************************************)
C18_ReadAllShape ==
    op = "read_all" =>
        /\ res.kind = "ok" =>
              /\ Len(res.val) = Len(recorded)
              /\ \A i \in 1..Len(res.val) :
                    /\ res.val[i].key = key
                    /\ \A klv \in res.val[i].data : InSpan(recorded[i], klv)
                    /\ SpanEnd(recorded[i]) > SpanStart(recorded[i])
                           => res.val[i].data # {}
        /\ \A i \in 1..Len(recorded) :
              (LengthFieldWhole(recorded[i]) /\ FirstTripletOvershoots(recorded[i]))
                  => (res.kind # "ok" /\ res.val = << >>)

\* read_all over the test source returned two sets, of one and of two
\* Triplets
C18_Witness ==
    /\ op = "read_all" /\ res.kind = "ok" /\ key = TEST_UNIVERSAL_KEY
    /\ recorded = <<1, 25>> /\ Len(res.val) = 2
    /\ Cardinality(res.val[1].data) = 1
    /\ Cardinality(res.val[2].data) = 2

\* bytes of the BER-OID tag at offset b
TagBytesAt(b) ==
    (CHOOSE k \in (b + 1)..Len(src) :
        src[k] < 128 /\ \A j \in (b + 1)..(k - 1) : src[j] >= 128) - b

\* bytes taken by Triplets read back to back from offset b: for each, its
\* tag bytes, its length-field bytes and its value length
RECURSIVE BytesTaken(_, _)
BytesTaken(b, triplets) ==
    IF triplets = << >> THEN 0
    ELSE LET size == TagBytesAt(b) + LengthFieldBytesAt(b + TagBytesAt(b))
                     + Head(triplets).length
         IN  size + BytesTaken(b + size, Tail(triplets))

\* the last call built the set at key offset `arg`
BuiltSet == op = "UniversalSet::new"

\* the key at offset `arg` is followed by 0x04 and [0x01, 0x02, 0x03, 0x04]
ExampleSet ==
    /\ arg + UNIVERSAL_KEY_LENGTH + 5 <= Len(src)
    /\ SubSeq(src, arg + UNIVERSAL_KEY_LENGTH + 1, arg + UNIVERSAL_KEY_LENGTH + 5)
           = <<4, 1, 2, 3, 4>>

(***************************************************************************)
(* C19  Local Set boundary: a Local Set read over a span of declared       *)
(* length L ends with the cursor at the end of the span, the Triplets it   *)
(* parsed take L bytes in all (tag bytes + length-field bytes + value      *)
(* length, back to back), the mapping holds the last Triplet parsed for    *)
(* each tag, and the read fails when the first Triplet would end past the  *)
(* span.  For the key followed by 0x04 and [0x01, 0x02, 0x03, 0x04] the    *)
(* set holds exactly one Triplet: tag 1, length 2, value [0x03, 0x04].     *)
(***************************************************************************)
C19_LocalSetBoundary ==
    BuiltSet =>
        /\ res.kind = "ok" =>
              /\ pos = SpanEnd(arg)
              /\ BytesTaken(SpanStart(arg), last_parsed)
                     = DeclaredLengthAt(arg + UNIVERSAL_KEY_LENGTH)
              /\ \A klv \in res.val.data : \E i \in 1..Len(last_parsed) : last_parsed[i] = klv
              /\ \A i \in 1..Len(last_parsed) :
                    \/ last_parsed[i] \in res.val.data
                    \/ \E j \in (i + 1)..Len(last_parsed) : last_parsed[j].tag = last_parsed[i].tag
              /\ \A a, b \in res.val.data : a.tag = b.tag => a = b
        /\ (LengthFieldWhole(arg) /\ FirstTripletOvershoots(arg)) => res.kind # "ok"
        /\ ExampleSet =>
              /\ res.kind = "ok"
              /\ res.val.data = {Triplet(u8_as_u128(1), 2, SpanStart(arg) + 2)}
              /\ Bytes(SpanStart(arg) + 2, 2) = <<3, 4>>

\* the example set was built and the value of its only Triplet was then
\* read as [0x03, 0x04]
C19_Witness ==
    /\ op = "read_value" /\ prev.op = "UniversalSet::new"
    /\ prev.res.kind = "ok" /\ Cardinality(prev.res.val.data) = 1
    /\ Len(klvs) = 1 /\ IsNumber(klvs[1].tag, 1) /\ klvs[1].length = 2
    /\ res = Ok("Vec<u8>", <<3, 4>>)

\* -- BER header 0x80 ---------------------------------------------------
\* the last call was read_ber on a first byte 0x80: long form, N = 0
BerEmptyHeader == op = "read_ber" /\ LeftAtStart >= 1 /\ FirstByte = 128

(***************************************************************************)
(* C20  Malformed long-form header.  As claimed: when the first byte       *)
(* read_ber reads is 0x80, the decode fails with a decoding error; no      *)
(* value is returned and no further byte is read.                          *)
(***************************************************************************)
C20_Original_EmptyHeaderIsDecodeError ==
    BerEmptyHeader => /\ res.kind = "decoding"
                      /\ pos = pos0 + 1

(***************************************************************************)
(* C20 as amended: when the first byte read_ber reads is 0x80, the decode  *)
(* ends in the fault "MSB in BER is 1 but all other bits are 0" and        *)
(* returns neither a value nor an error; no further byte is read.          *)
(***************************************************************************)
C20_EmptyHeaderFaults ==
    BerEmptyHeader => /\ res = Panic("MSB in BER is 1 but all other bits are 0")
                      /\ pos = pos0 + 1

\* read_ber met the header 0x80 after an earlier call, with bytes left
\* after it, and ended in the fault
C20_Witness ==
    /\ BerEmptyHeader /\ pos0 > 0 /\ LeftAtStart >= 2
    /\ res.kind = "panic" /\ pos = pos0 + 1

\* -- BER long-form range -------------------------------------------------
\* a u128, as its 16 bytes, is greater than 127
ValueAbove127(v) == (\E k \in 1..15 : v[k] # 0) \/ v[16] >= 128

\* a long-form encoding whose payload is present and has a value of 127 or
\* less
BerLongLow == BerLong /\ ~BerAbove127

\* the last call was read_ber_long_form on its own
LongFormCall == op = "read_ber_long_form"

(***************************************************************************)
(* C21  Long-form range.  As claimed: every value the BER long-form decode *)
(* returns is greater than 127, and a long-form encoding whose payload is  *)
(* 127 or less, an all-zero payload included, yields no value.             *)
(***************************************************************************)
C21_Original_LongFormAbove127 ==
    /\ (BerLong /\ res.kind = "ok") => ValueAbove127(res.val)
    /\ (LongFormCall /\ res.kind = "ok") => ValueAbove127(res.val)
    /\ BerLongLow => res.kind # "ok"

(***************************************************************************)
(* C21 as amended: in a build with debug assertions every value the BER    *)
(* long-form decode returns is greater than 127 and a payload of 1..127    *)
(* ends in the range assertion; in a build without them a payload of       *)
(* 1..127 is returned as its value.  An all-zero payload faults in either  *)
(* build, before the range is looked at, and yields no value.              *)
(***************************************************************************)
C21_LongFormRange ==
    /\ (BerLong /\ res.kind = "ok") =>
          /\ debug_assertions => ValueAbove127(res.val)
          /\ \E k \in 1..16 : res.val[k] # 0
    /\ (LongFormCall /\ res.kind = "ok") =>
          /\ debug_assertions => ValueAbove127(res.val)
          /\ \E k \in 1..16 : res.val[k] # 0
    /\ BerLongLow =>
          IF StripZeroBytes(BerPayload) = << >> THEN res.kind = "panic"
          ELSE IF debug_assertions
               THEN res = Panic("BER long-form value could be stored short-form")
               ELSE res = Ok("u128", AsU128(StripZeroBytes(BerPayload)))

\* [0x81, 0x7F] was met in a build with debug assertions and ended in the
\* range assertion
C21_Witness ==
    /\ BerLong /\ BerN = 1 /\ BerPayload = <<127>> /\ debug_assertions
    /\ res = Panic("BER long-form value could be stored short-form")

\* -- BER-OID zero ---------------------------------------------------------
\* the last call was read_ber_oid on a terminated encoding whose 7-bit
\* groups are all zero
OidAllZero == OidWhole /\ \A i \in 1..OidGroupCount : OidGroup(i) = 0

(***************************************************************************)
(* C22  BER-OID zero.  As claimed: whenever all accumulated 7-bit groups   *)
(* are zero, for the one-byte encoding [0x00] and for multi-byte encodings *)
(* such as [0x80, 0x00], read_ber_oid returns 0.                           *)
(***************************************************************************)
C22_Original_AllZeroGroupsIsZero ==
    OidAllZero => res = Ok("u128", AsU128(<<0>>))

(***************************************************************************)
(* C22 as amended: the same and the cursor is left just after the          *)
(* terminal byte, except that in a build with debug assertions a           *)
(* multi-byte all-zero encoding ends in the leading-zero assertion after   *)
(* its first byte.                                                         *)
(***************************************************************************)
C22_OidZero ==
    OidAllZero =>
        IF debug_assertions /\ OidGroupCount > 1
        THEN /\ res = Panic("Multi-byte BER-OID starts with leading zero")
             /\ pos = pos0 + 1
        ELSE /\ res = Ok("u128", AsU128(<<0>>))
             /\ pos = OidEnd

\* [0x80, 0x00] was decoded to 0 in a build without debug assertions
C22_Witness ==
    /\ OidAllZero /\ OidGroupCount = 2 /\ ~debug_assertions
    /\ IsNumber(res.val, 0) /\ res.kind = "ok" /\ pos = pos0 + 2

(***************************************************************************)
(* C23  Value read is non-destructive on every exit path: after read_value *)
(* returns, with the bytes or with an I/O error because the value span     *)
(* extends past the end of the source, the cursor is at the position it    *)
(* had before the call.                                                    *)
(***************************************************************************)
C23_ReadValueRestoresCursor ==
    (op = "read_value" /\ res.kind \in {"ok", "io"}) => pos = pos0

\* -- locator completeness ------------------------------------------------
\* the offsets the last locate returned
Reported == {res.val[i] : i \in 1..Len(res.val)}

\* the matches recorded before offset t: the returned offsets before t at
\* which the key occurs
MatchesBefore(t) == {r \in Reported : r < t /\ IsOccurrence(r)}

\* the last of them
LastBefore(t) == CHOOSE r \in MatchesBefore(t) : \A x \in MatchesBefore(t) : x <= r

\* offset t is not before the end of the value span of the match recorded
\* last before it, or no match was recorded before it
PastLastSpan(t) == MatchesBefore(t) = {} \/ t >= SpanEnd(LastBefore(t))

(***************************************************************************)
(* C24  Locator completeness, as claimed: when start_locations succeeds,   *)
(* every occurrence of the key, from the scan start on, that starts at or  *)
(* after the end of the value span of the match recorded last before it    *)
(* (or anywhere when no match was recorded before it) is among the         *)
(* returned offsets, also one that starts right after a skipped value and  *)
(* one at offset 0.                                                        *)
(***************************************************************************)
C24_LocatorComplete ==
    Located =>
        \A t \in pos0..Len(src) :
            (IsOccurrence(t) /\ PastLastSpan(t)) => t \in Reported

(***************************************************************************)
(* The scan of start_locations, pass by pass: the call reads the first     *)
(* window and enters the loop, every pass of the loop is one step, and the *)
(* pass that ends the loop returns.  Triplets are read in between, which   *)
(* moves the cursor for the scan after.                                    *)
(***************************************************************************)
InitScan == key \in Keys /\ src \in SetSources(key) /\ Fresh

\* the assignments of one step of the scan: a pass outcome that carries a
\* result ends the call
ScanStep(out) ==
    /\ pos' = out.pos
    /\ fetched' = out.pos
    /\ res' = out.res
    /\ recorded' = out.locations
    /\ pc' = IF out.res = NoResult THEN "scan" ELSE "idle"
    /\ frame' = IF out.res = NoResult
                THEN [search_buffer |-> out.search_buffer, locations |-> out.locations]
                ELSE NoFrame
    /\ UNCHANGED <<src, debug_assertions, key, borrowed, last_parsed>>

\* what Klv::read_length gives at every offset of the source.  The decoder
\* is a function of the source and the offset: the call works its outcomes
\* out on entry and a pass that matches looks its own up.
LengthsOfSource == [q \in 0..Len(src) |-> read_length(q)]

\* start_locations up to its loop: the first window is read; a source with
\* fewer bytes left than a key gives no offsets
ScanEnter ==
    /\ Running
    /\ pc = "idle"
    /\ op' = "start_locations"
    /\ arg' = 0
    /\ pos0' = pos
    /\ prev' = [op |-> op, arg |-> arg, res |-> res]
    /\ lengths' = LengthsOfSource
    /\ UNCHANGED klvs
    /\ ScanStep(IF CanRead(pos, UNIVERSAL_KEY_LENGTH)
                THEN PassOut(NoResult, pos + UNIVERSAL_KEY_LENGTH,
                             Bytes(pos, UNIVERSAL_KEY_LENGTH), << >>)
                ELSE PassOut(Ok("Vec<u64>", << >>), EofPos, << >>, << >>))

\* one pass of the loop
ScanPass ==
    /\ pc = "scan"
    /\ ScanStep(pass(key, pos, frame.search_buffer, frame.locations, lengths[pos]))
    /\ UNCHANGED <<op, arg, pos0, prev, klvs, lengths>>

NextScan ==
    \/ ScanEnter
    \/ ScanPass
    \/ KlvNew

\* the program runs on: a pass that can be taken is taken
SpecScan == InitScan /\ [][NextScan]_vars /\ WF_vars(ScanPass)

\* -- scan termination ----------------------------------------------------
\* a scan is in its loop
Scanning == pc = "scan"

\* the window of the scan is the key: the pass is a match
WindowIsKey == frame.search_buffer = key

\* the length field at the cursor is decoded to a length: it is whole, and
\* in the long form its payload, of at most 3 bytes, is above 127, or above
\* 0 in a build without debug assertions
LengthDecodes ==
    /\ ~LengthTruncatedAt(pos)
    /\ \/ src[pos + 1] < 128
       \/ /\ src[pos + 1] > 128
          /\ LengthFieldBytesAt(pos) <= 4
          /\ DeclaredLengthAt(pos) > (IF debug_assertions THEN 127 ELSE 0)

\* where the cursor is when the pass comes to read a byte into the window
ByteReadAt ==
    IF WindowIsKey THEN pos + LengthFieldBytesAt(pos) + DeclaredLengthAt(pos) ELSE pos

\* the pass comes to read a byte into the window: it is not a match, or the
\* length field after the match was decoded and the value jumped over
ComesToByteRead == WindowIsKey => LengthDecodes

\* the offsets the pass has recorded when it comes to its byte read
OffsetsAtByteRead ==
    IF WindowIsKey THEN Append(frame.locations, pos - UNIVERSAL_KEY_LENGTH)
    ELSE frame.locations

(***************************************************************************)
(* C25  Scan termination: on every source start_locations terminates;      *)
(* every pass of the scan loop that does not end the scan moves the cursor *)
(* forward by at least one byte, and the pass whose byte read hits the end *)
(* of the source ends the scan with the offsets recorded so far, also when *)
(* the length field of a match declares more bytes than the source has     *)
(* left; a scan that returns offsets has ended that way.                   *)
(***************************************************************************)
C25_ScanTerminates ==
    /\ Scanning ~> ~Scanning
    /\ [][Scanning =>
            /\ Scanning' => pos' > pos
            /\ (ComesToByteRead /\ ByteReadAt >= Len(src)) =>
                   /\ ~Scanning'
                   /\ res' = Ok("Vec<u64>", OffsetsAtByteRead)
                   /\ pos' = Len(src)
            /\ (~Scanning' /\ res'.kind = "ok") =>
                   (ComesToByteRead /\ ByteReadAt >= Len(src))]_vars

\* a scan from offset 0 has returned its one offset after a match whose
\* length field declared more bytes than the source had left
C25_Witness ==
    /\ op = "start_locations" /\ pc = "idle" /\ pos0 = 0
    /\ res.kind = "ok" /\ Len(res.val) = 1
    /\ IsOccurrence(res.val[1])
    /\ SpanEnd(res.val[1]) > Len(src)
    /\ pos = Len(src)

(***************************************************************************)
(* The shared cursor's borrow flag.  The cursor sits in an Rc<RefCell<T>>: *)
(* borrow_mut takes the one exclusive borrow or faults when it is taken,   *)
(* and the borrow is given back when its RefMut is dropped.  Each          *)
(* operation is two or more steps here: it takes the borrow, and in a      *)
(* later step does its reads and seeks and drops it.  read_all builds its  *)
(* sets one after the other; a set is read as the specification's sections *)
(* 4.4 and 4.5 describe: a borrow for the seek past the key and the length *)
(* field, then one Klv::new, with its own borrow, per Triplet.             *)
(***************************************************************************)
\* faulty variant: the RefMut is leaked and the borrow never given back
drop_leaks(b) == b

\* drop(buf_ref), or the end of the scope of a RefMut
drop(b) == b - 1

\* buf.borrow_mut() that finds the cursor free
borrow_mut(b) == b + 1

\* the local variables of a read_all that is building its sets: the offsets
\* located, the index of the set in hand, the sets built, and the end of the
\* span and the Triplets of the set in hand
SetsFrame(locations, i, sets, end_offset, data) ==
    [locations |-> locations, i |-> i, sets |-> sets,
     end_offset |-> end_offset, data |-> data]

InitBorrow == key \in Keys /\ src \in SetSources(key) /\ Fresh

\* a call begins: what the last call was is kept
Enter(name, a) ==
    /\ op' = name
    /\ arg' = a
    /\ pos0' = pos
    /\ prev' = [op |-> op, arg |-> arg, res |-> res]

\* buf.borrow_mut(): the borrow is taken and the operation goes on at
\* `next`, or the cursor is already borrowed and the call faults
BorrowMut(next) ==
    /\ IF borrowed # 0
       THEN /\ res' = Panic("already borrowed: BorrowMutError")
            /\ pc' = "idle"
            /\ frame' = NoFrame
            /\ borrowed' = borrowed
       ELSE /\ res' = NoResult
            /\ pc' = next
            /\ frame' = frame
            /\ borrowed' = borrow_mut(borrowed)
    /\ UNCHANGED <<src, pos, debug_assertions, key, klvs, fetched, recorded, lengths,
                   last_parsed>>

\* the reads and seeks done under the borrow, which is then dropped: the
\* operation returns r, or goes on at `next` with the local variables fr
Release(r, p, next, fr) ==
    /\ res' = r
    /\ pos' = p
    /\ pc' = next
    /\ frame' = fr
    /\ borrowed' = drop(borrowed)
    /\ UNCHANGED <<src, debug_assertions, key, fetched, lengths, last_parsed,
                   op, arg, pos0, prev>>

\* Klv::new: let mut buf_ref = buf.borrow_mut()
KlvNewBorrow ==
    /\ Running /\ pc = "idle"
    /\ Len(klvs) < MaxKlvs
    /\ Enter("Klv::new", 0)
    /\ BorrowMut("Klv::new")

\* Klv::new: tag, length, seek; the borrow is dropped on every way out
KlvNewBody ==
    /\ pc = "Klv::new"
    /\ Release(Klv_new(pos).res, Klv_new(pos).pos, "idle", NoFrame)
    /\ klvs' = IF res'.kind = "ok" THEN Append(klvs, res'.val) ELSE klvs
    /\ UNCHANGED recorded

\* read_value: let mut buf = self.buf.borrow_mut()
ReadValueBorrow ==
    /\ Running /\ pc = "idle"
    /\ \E i \in 1..Len(klvs) : Enter("read_value", i)
    /\ BorrowMut("read_value")

\* read_value: seek, read_exact, seek back; the borrow ends with the scope
ReadValueBody ==
    /\ pc = "read_value"
    /\ Release(read_value(klvs[arg], pos).res, read_value(klvs[arg], pos).pos,
               "idle", NoFrame)
    /\ UNCHANGED <<klvs, recorded>>

\* read_all: buf.borrow_mut(), a temporary of the statement that locates
ReadAllBorrow ==
    /\ Running /\ pc = "idle"
    /\ Enter("read_all", 0)
    /\ BorrowMut("read_all")

\* the local variables of read_all once the offsets are located, or none
\* when the locate failed
located_frame(locations) ==
    IF locations.res.kind = "ok" THEN SetsFrame(locations.res.val, 1, << >>, 0, {})
    ELSE NoFrame

\* read_all: start_locations under the borrow, which ends with the
\* statement; an error of the locate is returned
ReadAllLocate ==
    /\ pc = "read_all"
    /\ \E locations \in {start_locations(key, pos)} :
          /\ Release(IF locations.res.kind = "ok" THEN NoResult ELSE locations.res,
                     locations.pos,
                     IF locations.res.kind = "ok" THEN "read_all:sets" ELSE "idle",
                     located_frame(locations))
          /\ recorded' = locations.recorded
    /\ UNCHANGED klvs

\* read_all: the next item of the map, UniversalSet::new on the next
\* offset, which begins the read of its Local Set with a borrow; after the
\* last offset the sets are returned
ReadAllNextSet ==
    /\ pc = "read_all:sets"
    /\ IF frame.i > Len(frame.locations)
       THEN /\ res' = Ok("Vec<UniversalSet>", frame.sets)
            /\ pc' = "idle"
            /\ frame' = NoFrame
            /\ klvs' = klvs \o klvs_of(frame.sets)
            /\ UNCHANGED <<src, pos, debug_assertions, key, fetched, recorded,
                           lengths, last_parsed, borrowed>>
       ELSE BorrowMut("LocalSet::read")
    /\ UNCHANGED <<op, arg, pos0, prev>>

\* the set in hand is complete: it is collected and the next offset is due
set_done(fr, data) ==
    SetsFrame(fr.locations, fr.i + 1,
              Append(fr.sets, [key |-> key, data |-> data]), 0, {})

\* the local variables after the length field of the set in hand: an empty
\* span completes the set, another has its Triplets read
span_frame(fr, length) ==
    IF length.res.kind # "ok" \/ ~FitsI64(length.res.val) THEN NoFrame
    ELSE IF U64ToInt(length.res.val) = 0 THEN set_done(fr, {})
    ELSE SetsFrame(fr.locations, fr.i, fr.sets,
                   length.pos + U64ToInt(length.res.val), {})

\* where read_all goes on after the length field of the set in hand
span_next(length) ==
    IF length.res.kind # "ok" \/ ~FitsI64(length.res.val) THEN "idle"
    ELSE IF U64ToInt(length.res.val) = 0 THEN "read_all:sets"
    ELSE "LocalSet::read:klv"

\* what read_all returns after the length field of the set in hand, if it
\* returns
span_result(length) ==
    IF length.res.kind # "ok" THEN length.res
    ELSE IF ~FitsI64(length.res.val) THEN Panic("length does not fit a seek offset")
    ELSE NoResult

\* the Local Set read seeks past the key and decodes the length field, and
\* gives the borrow back before any Triplet is read
LocalSetLength ==
    /\ pc = "LocalSet::read"
    /\ \E length \in {read_length(frame.locations[frame.i] + UNIVERSAL_KEY_LENGTH)} :
          Release(span_result(length), length.pos, span_next(length),
                  span_frame(frame, length))
    /\ UNCHANGED <<klvs, recorded>>

\* the Local Set read calls Klv::new for its next Triplet
TripletBorrow ==
    /\ pc = "LocalSet::read:klv"
    /\ BorrowMut("LocalSet::read:Klv::new")
    /\ UNCHANGED <<op, arg, pos0, prev>>

\* the local variables after a Triplet of the set in hand
triplet_frame(fr, klv) ==
    IF klv.res.kind # "ok" \/ klv.pos > fr.end_offset THEN NoFrame
    ELSE IF klv.pos = fr.end_offset THEN set_done(fr, insert(fr.data, klv.res.val))
    ELSE SetsFrame(fr.locations, fr.i, fr.sets, fr.end_offset,
                   insert(fr.data, klv.res.val))

\* where read_all goes on after a Triplet of the set in hand
triplet_next(fr, klv) ==
    IF klv.res.kind # "ok" \/ klv.pos > fr.end_offset THEN "idle"
    ELSE IF klv.pos = fr.end_offset THEN "read_all:sets"
    ELSE "LocalSet::read:klv"

\* what read_all returns after a Triplet of the set in hand, if it returns
triplet_result(fr, klv) ==
    IF klv.res.kind # "ok" THEN klv.res
    ELSE IF klv.pos > fr.end_offset THEN DecodingError("local_set")
    ELSE NoResult

\* that Klv::new reads the Triplet and drops its borrow; the Triplet is
\* inserted, refused when it ends past the span, and ends the set when it
\* ends at the end of the span
TripletBody ==
    /\ pc = "LocalSet::read:Klv::new"
    /\ \E klv \in {Klv_new(pos)} :
          Release(triplet_result(frame, klv), klv.pos, triplet_next(frame, klv),
                  triplet_frame(frame, klv))
    /\ UNCHANGED <<klvs, recorded>>

NextBorrow ==
    \/ KlvNewBorrow
    \/ KlvNewBody
    \/ ReadValueBorrow
    \/ ReadValueBody
    \/ ReadAllBorrow
    \/ ReadAllLocate
    \/ ReadAllNextSet
    \/ LocalSetLength
    \/ TripletBorrow
    \/ TripletBody

SpecBorrow == InitBorrow /\ [][NextBorrow]_vars

\* -- borrows --------------------------------------------------------------
\* no operation is in progress: the last one has returned
Returned == pc = "idle"

\* a borrow_mut found the cursor already borrowed
AlreadyBorrowed == res = Panic("already borrowed: BorrowMutError")

(***************************************************************************)
(* C26  Exclusive-borrow discipline: in every sequence of Klv::new,        *)
(* read_value and read_all calls on one shared cursor there is at most one *)
(* exclusive borrow of the cursor at any time, no borrow is left when an   *)
(* operation has returned, with a value or with an error, and no           *)
(* borrow_mut ever finds the cursor already borrowed.                      *)
(***************************************************************************)
C26_BorrowDiscipline ==
    /\ borrowed \in {0, 1}
    /\ Returned => borrowed = 0
    /\ ~AlreadyBorrowed

\* a Klv::new holds the borrow right after a read_all that returned an
\* error from the middle of building a set
C26_Witness ==
    /\ pc = "Klv::new" /\ borrowed = 1
    /\ prev.op = "read_all" /\ prev.res.kind = "decoding"
    /\ Len(recorded) >= 1

====
